---------------------------- MODULE Spec2Model ----------------------------
(***************************************************************************)
(* Checked integer primitives of safe_numerics (checked_integer.hpp).      *)
(*                                                                         *)
(* Every operation of checked_unary_operation / checked_binary_operation   *)
(* is a pure function of the three types (R, T, U) and the operands        *)
(* (t, u).  The state holds one call: the types, the operands, the         *)
(* operation applied and what it returned.  Init draws the operands; one   *)
(* action per operation applies it.                                        *)
(*                                                                         *)
(* The machine is a scaled two's complement machine: char, int and the     *)
(* widest integer (intmax_t) keep their C++ roles (integral promotion,     *)
(* usual arithmetic conversions, sizeof) at reduced widths.                *)
(***************************************************************************)
EXTENDS Integers, FiniteSets, Sequences, TLC

VARIABLES op, rtype, ttype, utype, targ, uarg, res, evals

vars == <<op, rtype, ttype, utype, targ, uarg, res, evals>>

inputs == <<rtype, ttype, utype, targ, uarg>>

---------------------------------------------------------------------------
(* The machine: widths of the integer types                                *)

CharBits == 2

SizeofInt == 2

SizeofMax == 4

\* operands are drawn within this distance of a boundary of some type
Near == 1

IntBits == SizeofInt * CharBits

MaxBits == SizeofMax * CharBits

IntType(s, b) == [sgn |-> s, bits |-> b]

Types == {IntType(s, b) : s \in BOOLEAN, b \in {CharBits, IntBits, MaxBits}}

int == IntType(TRUE, IntBits)

intmax_t == IntType(TRUE, MaxBits)

uintmax_t == IntType(FALSE, MaxBits)

make_unsigned(T) == IntType(FALSE, T.bits)

sizeof(T) == T.bits \div CharBits

\* std::numeric_limits<T>::min(), max(), digits
Min(T) == IF T.sgn THEN -(2 ^ (T.bits - 1)) ELSE 0

Max(T) == IF T.sgn THEN 2 ^ (T.bits - 1) - 1 ELSE 2 ^ T.bits - 1

digits(T) == IF T.sgn THEN T.bits - 1 ELSE T.bits

InRange(T, v) == Min(T) <= v /\ v <= Max(T)

\* conversion of the integer v to T (two's complement: reduced modulo 2^bits)
Wrap(T, v) ==
    LET m == 2 ^ T.bits
        r == v % m
    IN  IF T.sgn /\ r > Max(T) THEN r - m ELSE r

\* integral promotion: a type narrower than int becomes int
Promote(T) == IF T.bits < IntBits THEN int ELSE T

\* usual arithmetic conversions of two operand types
Common(A, B) ==
    LET PA == Promote(A)
        PB == Promote(B)
    IN  IF PA.sgn = PB.sgn
        THEN IF PA.bits >= PB.bits THEN PA ELSE PB
        ELSE LET S  == IF PA.sgn THEN PA ELSE PB
                 Un == IF PA.sgn THEN PB ELSE PA
             IN  IF Un.bits >= S.bits THEN Un ELSE S

Abs(v) == IF v < 0 THEN -v ELSE v

\* integer division truncating toward zero (a division by zero is an
\* undefined evaluation, see Undefined; its value here is immaterial)
TruncDiv(a, b) ==
    IF b = 0 THEN 0
    ELSE IF (a < 0) = (b < 0) THEN Abs(a) \div Abs(b)
    ELSE -(Abs(a) \div Abs(b))

TruncRem(a, b) == a - TruncDiv(a, b) * b

---------------------------------------------------------------------------
(* Native evaluation.  An evaluation records the operator, the type it is  *)
(* carried out in, its operands and its exact mathematical value.          *)

Eval(o, P, a, b, x) == [o |-> o, ty |-> P, a |-> a, b |-> b, exact |-> x]

\* the evaluation has undefined behaviour
Undefined(e) ==
    \/ e.o \in {"/", "%"} /\ e.b = 0
    \/ e.o \in {"+", "-", "*", "/"} /\ e.ty.sgn /\ ~InRange(e.ty, e.exact)
    \/ e.o \in {"<<", ">>"} /\ (e.b < 0 \/ e.b >= e.ty.bits)
    \/ e.o = "<<" /\ e.ty.sgn
          /\ (e.a < 0 \/ ~InRange(make_unsigned(e.ty), e.exact))

---------------------------------------------------------------------------
(* checked_result<R>                                                       *)

ErrorKinds ==
    {"positive_overflow_error", "negative_overflow_error", "range_error",
     "domain_error", "undefined_behavior", "implementation_defined_behavior"}

Ok(v) == [e |-> "success", r |-> v]

Err(k) == [e |-> k, r |-> 0]

exception(cr) == cr.e # "success"

\* checked_result<R>(const R &) applied to a value of another integer type
Result(R, v) == Ok(Wrap(R, v))

\* an operation's outcome: what it returns and the native evaluations made
Out(cr, es) == [res |-> cr, evals |-> es]

---------------------------------------------------------------------------
(* safe_compare                                                            *)

safe_greater_than(a, b) == a > b

safe_less_than(a, b) == a < b

---------------------------------------------------------------------------
(* cast                                                                    *)

cast_impl_ss(R, t) ==
    IF safe_greater_than(t, Max(R)) THEN Err("positive_overflow_error")
    ELSE IF safe_less_than(t, Min(R)) THEN Err("negative_overflow_error")
    ELSE Ok(Wrap(R, t))

cast_impl_su(R, t) ==
    IF safe_greater_than(t, Max(R)) THEN Err("positive_overflow_error")
    ELSE Ok(Wrap(R, t))

cast_impl_uu(R, t) ==
    IF safe_greater_than(t, Max(R)) THEN Err("positive_overflow_error")
    ELSE Ok(Wrap(R, t))

\* variant: the test for a negative value is left out
cast_impl_us_nosign(R, t) ==
    IF safe_greater_than(t, Max(R)) THEN Err("positive_overflow_error")
    ELSE Ok(Wrap(R, t))

cast_impl_us(R, t) ==
    IF safe_less_than(t, 0) THEN Err("domain_error")
    ELSE IF safe_greater_than(t, Max(R)) THEN Err("positive_overflow_error")
    ELSE Ok(Wrap(R, t))

cast(R, T, t) ==
    IF R.sgn
    THEN IF T.sgn THEN cast_impl_ss(R, t) ELSE cast_impl_su(R, t)
    ELSE IF T.sgn THEN cast_impl_us(R, t) ELSE cast_impl_uu(R, t)

---------------------------------------------------------------------------
(* add                                                                     *)

\* R unsigned; t and u are values of R
add_impl_unsigned(R, t, u) ==
    LET P  == Promote(R)
        e1 == Eval("-", P, Max(R), u, Max(R) - u)
        e2 == Eval("+", P, t, u, t + u)
    IN  IF Wrap(P, e1.exact) < t
        THEN Out(Err("positive_overflow_error"), {e1})
        ELSE Out(Result(R, Wrap(P, e2.exact)), {e1, e2})

\* variant: the test against R::min is left out
add_impl_signed_nolow(R, t, u) ==
    LET P  == Promote(R)
        e1 == Eval("-", P, Max(R), u, Max(R) - u)
        e3 == Eval("+", P, t, u, t + u)
        s1 == IF u > 0 THEN {e1} ELSE {}
    IN  IF u > 0 /\ t > Wrap(P, e1.exact)
        THEN Out(Err("positive_overflow_error"), s1)
        ELSE Out(Result(R, Wrap(P, e3.exact)), s1 \cup {e3})

\* variant: R::max - u and R::min - u are formed whatever the sign of u
add_impl_signed_unguarded(R, t, u) ==
    LET P  == Promote(R)
        e1 == Eval("-", P, Max(R), u, Max(R) - u)
        e2 == Eval("-", P, Min(R), u, Min(R) - u)
        e3 == Eval("+", P, t, u, t + u)
    IN  IF t > Wrap(P, e1.exact) /\ u > 0
        THEN Out(Err("positive_overflow_error"), {e1})
        ELSE IF t < Wrap(P, e2.exact) /\ u < 0
        THEN Out(Err("negative_overflow_error"), {e1, e2})
        ELSE Out(Result(R, Wrap(P, e3.exact)), {e1, e2, e3})

\* R signed
add_impl_signed(R, t, u) ==
    LET P  == Promote(R)
        e1 == Eval("-", P, Max(R), u, Max(R) - u)
        e2 == Eval("-", P, Min(R), u, Min(R) - u)
        e3 == Eval("+", P, t, u, t + u)
        s1 == IF u > 0 THEN {e1} ELSE {}
        s2 == IF u < 0 THEN {e2} ELSE {}
    IN  IF u > 0 /\ t > Wrap(P, e1.exact)
        THEN Out(Err("positive_overflow_error"), s1)
        ELSE IF u < 0 /\ t < Wrap(P, e2.exact)
        THEN Out(Err("negative_overflow_error"), s1 \cup s2)
        ELSE Out(Result(R, Wrap(P, e3.exact)), s1 \cup s2 \cup {e3})

\* variant: u is cast and tested before t
add_u_first(R, T, U, t, u) ==
    LET rt == cast(R, T, t)
        ru == cast(R, U, u)
    IN  IF exception(ru) THEN Out(ru, {})
        ELSE IF exception(rt) THEN Out(rt, {})
        ELSE IF R.sgn THEN add_impl_signed(R, rt.r, ru.r)
        ELSE add_impl_unsigned(R, rt.r, ru.r)

add(R, T, U, t, u) ==
    LET rt == cast(R, T, t)
        ru == cast(R, U, u)
    IN  IF exception(rt) THEN Out(rt, {})
        ELSE IF exception(ru) THEN Out(ru, {})
        ELSE IF R.sgn THEN add_impl_signed(R, rt.r, ru.r)
        ELSE add_impl_unsigned(R, rt.r, ru.r)

---------------------------------------------------------------------------
(* subtract                                                                *)

\* variant: t <= u instead of t < u
subtract_impl_unsigned_le(R, t, u) ==
    LET P  == Promote(R)
        e1 == Eval("-", P, t, u, t - u)
    IN  IF t <= u
        THEN Out(Err("range_error"), {})
        ELSE Out(Result(R, Wrap(P, e1.exact)), {e1})

subtract_impl_unsigned(R, t, u) ==
    LET P  == Promote(R)
        e1 == Eval("-", P, t, u, t - u)
    IN  IF t < u
        THEN Out(Err("range_error"), {})
        ELSE Out(Result(R, Wrap(P, e1.exact)), {e1})

subtract_impl_signed(R, t, u) ==
    LET P  == Promote(R)
        e1 == Eval("+", P, Min(R), u, Min(R) + u)
        e2 == Eval("+", P, Max(R), u, Max(R) + u)
        e3 == Eval("-", P, t, u, t - u)
        s1 == IF u > 0 THEN {e1} ELSE {}
        s2 == IF u < 0 THEN {e2} ELSE {}
    IN  IF u > 0 /\ t < Wrap(P, e1.exact)
        THEN Out(Err("positive_overflow_error"), s1)
        ELSE IF u < 0 /\ t > Wrap(P, e2.exact)
        THEN Out(Err("negative_overflow_error"), s1 \cup s2)
        ELSE Out(Result(R, Wrap(P, e3.exact)), s1 \cup s2 \cup {e3})

\* the impl takes const R: the operands t, u are converted to R on the call
subtract(R, T, U, t, u) ==
    LET rt == cast(R, T, t)
        ru == cast(R, U, u)
    IN  IF exception(rt) THEN Out(rt, {})
        ELSE IF exception(ru) THEN Out(ru, {})
        ELSE IF R.sgn THEN subtract_impl_signed(R, Wrap(R, t), Wrap(R, u))
        ELSE subtract_impl_unsigned(R, Wrap(R, t), Wrap(R, u))

---------------------------------------------------------------------------
(* multiply                                                                *)

\* R unsigned, !(sizeof(R) > sizeof(std::uintmax_t) / 2)
multiply_impl_unsigned_wide(R, t, u) ==
    LET P  == Promote(R)
        e1 == Eval("*", uintmax_t, t, u, t * u)
        e2 == Eval("*", P, t, u, t * u)
    IN  IF Wrap(uintmax_t, e1.exact) > Max(R)
        THEN Out(Err("positive_overflow_error"), {e1})
        ELSE Out(Result(R, Wrap(P, e2.exact)), {e1, e2})

\* R unsigned, sizeof(R) > sizeof(std::uintmax_t) / 2
multiply_impl_unsigned_narrow(R, t, u) ==
    LET P  == Promote(R)
        e1 == Eval("/", P, Max(R), u, TruncDiv(Max(R), u))
        e2 == Eval("*", P, t, u, t * u)
        s1 == IF u > 0 THEN {e1} ELSE {}
    IN  IF u > 0 /\ t > e1.exact
        THEN Out(Err("positive_overflow_error"), s1)
        ELSE Out(Result(R, Wrap(P, e2.exact)), s1 \cup {e2})

\* R signed, !(sizeof(R) > sizeof(std::intmax_t) / 2)
multiply_impl_signed_wide(R, t, u) ==
    LET P  == Promote(R)
        e1 == Eval("*", intmax_t, t, u, t * u)
        e2 == Eval("*", P, t, u, t * u)
    IN  IF Wrap(intmax_t, e1.exact) > Max(R)
        THEN Out(Err("positive_overflow_error"), {e1})
        ELSE IF Wrap(intmax_t, e1.exact) < Min(R)
        THEN Out(Err("negative_overflow_error"), {e1})
        ELSE Out(Result(R, Wrap(P, e2.exact)), {e1, e2})

\* variant: the case t <= 0, u <= 0 divides by u instead of t
multiply_impl_signed_narrow_swapped(R, t, u) ==
    LET P   == Promote(R)
        e2  == Eval("*", P, t, u, t * u)
        okv == Result(R, Wrap(P, e2.exact))
    IN  IF t > 0
        THEN IF u > 0
             THEN IF t > TruncDiv(Max(R), u)
                  THEN Out(Err("positive_overflow_error"), {})
                  ELSE Out(okv, {e2})
             ELSE IF u < TruncDiv(Min(R), t)
                  THEN Out(Err("negative_overflow_error"), {})
                  ELSE Out(okv, {e2})
        ELSE IF u > 0
             THEN IF t < TruncDiv(Min(R), u)
                  THEN Out(Err("negative_overflow_error"), {})
                  ELSE Out(okv, {e2})
             ELSE IF u # 0 /\ u < TruncDiv(Max(R), u)
                  THEN Out(Err("positive_overflow_error"), {})
                  ELSE Out(okv, {e2})

\* variant: the case t <= 0, u <= 0 divides by t without the test t != 0
multiply_impl_signed_narrow_nozero(R, t, u) ==
    LET P   == Promote(R)
        e2  == Eval("*", P, t, u, t * u)
        okv == Result(R, Wrap(P, e2.exact))
    IN  IF t > 0
        THEN IF u > 0
             THEN IF t > TruncDiv(Max(R), u)
                  THEN Out(Err("positive_overflow_error"), {})
                  ELSE Out(okv, {e2})
             ELSE IF u < TruncDiv(Min(R), t)
                  THEN Out(Err("negative_overflow_error"), {})
                  ELSE Out(okv, {e2})
        ELSE IF u > 0
             THEN IF t < TruncDiv(Min(R), u)
                  THEN Out(Err("negative_overflow_error"), {})
                  ELSE Out(okv, {e2})
             ELSE IF u < TruncDiv(Max(R), t)
                  THEN Out(Err("positive_overflow_error"), {})
                  ELSE Out(okv, {e2})

\* R signed, sizeof(R) > sizeof(std::intmax_t) / 2
multiply_impl_signed_narrow(R, t, u) ==
    LET P   == Promote(R)
        e2  == Eval("*", P, t, u, t * u)
        okv == Result(R, Wrap(P, e2.exact))
    IN  IF t > 0
        THEN IF u > 0
             THEN LET e1 == Eval("/", P, Max(R), u, TruncDiv(Max(R), u))
                  IN  IF t > Wrap(P, e1.exact)
                      THEN Out(Err("positive_overflow_error"), {e1})
                      ELSE Out(okv, {e1, e2})
             ELSE LET e1 == Eval("/", P, Min(R), t, TruncDiv(Min(R), t))
                  IN  IF u < Wrap(P, e1.exact)
                      THEN Out(Err("negative_overflow_error"), {e1})
                      ELSE Out(okv, {e1, e2})
        ELSE IF u > 0
             THEN LET e1 == Eval("/", P, Min(R), u, TruncDiv(Min(R), u))
                  IN  IF t < Wrap(P, e1.exact)
                      THEN Out(Err("negative_overflow_error"), {e1})
                      ELSE Out(okv, {e1, e2})
             ELSE IF t = 0
                  THEN Out(okv, {e2})
                  ELSE LET e1 == Eval("/", P, Max(R), t, TruncDiv(Max(R), t))
                       IN  IF u < Wrap(P, e1.exact)
                           THEN Out(Err("positive_overflow_error"), {e1})
                           ELSE Out(okv, {e1, e2})

multiply_impl(R, t, u) ==
    IF sizeof(R) > sizeof(uintmax_t) \div 2
    THEN IF R.sgn THEN multiply_impl_signed_narrow(R, t, u)
         ELSE multiply_impl_unsigned_narrow(R, t, u)
    ELSE IF R.sgn THEN multiply_impl_signed_wide(R, t, u)
         ELSE multiply_impl_unsigned_wide(R, t, u)

multiply(R, T, U, t, u) ==
    LET rt == cast(R, T, t)
        ru == cast(R, U, u)
    IN  IF exception(rt) THEN Out(rt, {})
        ELSE IF exception(ru) THEN Out(ru, {})
        ELSE multiply_impl(R, Wrap(R, t), Wrap(R, u))

---------------------------------------------------------------------------
(* divide                                                                  *)

divide_impl_unsigned(R, t, u) ==
    LET P  == Promote(R)
        e1 == Eval("/", P, t, u, TruncDiv(t, u))
    IN  Out(Result(R, Wrap(P, e1.exact)), {e1})

divide_impl_signed(R, t, u) ==
    LET P  == Promote(R)
        e1 == Eval("/", P, t, u, TruncDiv(t, u))
    IN  IF u = -1 /\ t = Min(R)
        THEN Out(Err("range_error"), {})
        ELSE Out(Result(R, Wrap(P, e1.exact)), {e1})

\* variant: a failed cast is returned with its own kind
divide_firsterror(R, T, U, t, u) ==
    IF u = 0 THEN Out(Err("domain_error"), {})
    ELSE LET tx == cast(R, T, t)
             ux == cast(R, U, u)
         IN  IF exception(tx) THEN Out(tx, {})
             ELSE IF exception(ux) THEN Out(ux, {})
             ELSE IF R.sgn THEN divide_impl_signed(R, tx.r, ux.r)
             ELSE divide_impl_unsigned(R, tx.r, ux.r)

divide(R, T, U, t, u) ==
    IF u = 0 THEN Out(Err("domain_error"), {})
    ELSE LET tx == cast(R, T, t)
             ux == cast(R, U, u)
         IN  IF exception(tx) \/ exception(ux)
             THEN Out(Err("domain_error"), {})
             ELSE IF R.sgn THEN divide_impl_signed(R, tx.r, ux.r)
             ELSE divide_impl_unsigned(R, tx.r, ux.r)

---------------------------------------------------------------------------
(* modulus                                                                 *)

\* abs returns std::make_unsigned_t<Tx>; -t is formed in the promoted type
abs(Tx, t) ==
    IF t < 0 /\ t # Min(Tx)
    THEN Wrap(make_unsigned(Tx), Wrap(Promote(Tx), -t))
    ELSE Wrap(make_unsigned(Tx), t)

\* t % abs(u): both operands are converted to their common type, and the
\* remainder is converted to R by checked_result<R>(const R &)
modulus(R, T, U, t, u) ==
    IF 0 = u THEN Out(Err("domain_error"), {})
    ELSE LET C  == Common(T, make_unsigned(U))
             tc == Wrap(C, t)
             uc == Wrap(C, abs(U, u))
             e1 == Eval("%", C, tc, uc, TruncRem(tc, uc))
         IN  Out(Result(R, e1.exact), {e1})

---------------------------------------------------------------------------
(* less_than, greater_than, equal                                          *)

less_than(R, T, U, t, u) ==
    LET tx == cast(R, T, t)
        ux == cast(R, U, u)
    IN  IF exception(tx) THEN Out(Err(tx.e), {})
        ELSE IF exception(ux) THEN Out(Err(ux.e), {})
        ELSE Out(Ok(tx.r < ux.r), {})

greater_than(R, T, U, t, u) ==
    LET tx == cast(R, T, t)
        ux == cast(R, U, u)
    IN  IF exception(tx) THEN Out(Err(tx.e), {})
        ELSE IF exception(ux) THEN Out(Err(ux.e), {})
        ELSE Out(Ok(tx.r > ux.r), {})

equal(R, T, U, t, u) ==
    LET tx == cast(R, T, t)
        ux == cast(R, U, u)
    IN  IF exception(tx) THEN Out(Err(tx.e), {})
        ELSE IF exception(ux) THEN Out(Err(ux.e), {})
        ELSE Out(Ok(tx.r = ux.r), {})

---------------------------------------------------------------------------
(* utility::significant_bits                                               *)

unsigned_int == IntType(FALSE, IntBits)

significant_bits(x) ==
    IF x = 0 THEN 0
    ELSE CHOOSE n \in 1..(MaxBits + 1) :
            2 ^ (n - 1) <= Abs(x) /\ Abs(x) < 2 ^ n

---------------------------------------------------------------------------
(* left_shift                                                              *)

\* the values a build can produce for t << u evaluated in the promoted type
\* P of t: the product reduced to P when the shift is defined; zero fill or
\* the count reduced modulo the width when it is undefined
ShiftLeftValues(e) ==
    IF Undefined(e)
    THEN {Wrap(e.ty, e.exact), Wrap(e.ty, e.a * 2 ^ (e.b % e.ty.bits))}
    ELSE {Wrap(e.ty, e.exact)}

\* T unsigned.  digits is an int, significant_bits returns unsigned int:
\* the difference is formed in unsigned int
left_shift_unsigned(R, T, U, t, u) ==
    LET P   == Promote(T)
        lim == Wrap(unsigned_int, digits(R) - significant_bits(t))
        e1  == Eval("<<", P, t, u, t * 2 ^ u)
    IN  IF safe_greater_than(u, lim)
        THEN {Out(Err("undefined_behavior"), {})}
        ELSE {Out(Result(R, v), {e1}) : v \in ShiftLeftValues(e1)}

\* the frame of checked::left_shift<R>, which the signed case re-enters with
\* t converted to std::make_unsigned<T>::type
left_shift_frame(R, T, U, t, u, signed_detail) ==
    IF u = 0 THEN {Out(Result(R, t), {})}
    ELSE IF u < 0 THEN {Out(Err("implementation_defined_behavior"), {})}
    ELSE IF u > digits(R)
    THEN {Out(Err("implementation_defined_behavior"), {})}
    ELSE IF t = 0 THEN {Out(cast(R, T, t), {})}
    ELSE IF T.sgn THEN signed_detail
    ELSE left_shift_unsigned(R, T, U, t, u)

\* T signed
left_shift_signed(R, T, U, t, u) ==
    IF t >= 0
    THEN left_shift_frame(R, make_unsigned(T), U,
                          Wrap(make_unsigned(T), t), u, {})
    ELSE {Out(Err("undefined_behavior"), {})}

left_shift(R, T, U, t, u) ==
    left_shift_frame(R, T, U, t, u, left_shift_signed(R, T, U, t, u))

---------------------------------------------------------------------------
(* right_shift                                                             *)

\* the values a build can produce for t >> u evaluated in the promoted type
ShiftRightValues(e) ==
    IF Undefined(e)
    THEN {e.exact, e.a \div 2 ^ (e.b % e.ty.bits)}
    ELSE {e.exact}

right_shift_unsigned(R, T, U, t, u) ==
    LET P  == Promote(T)
        e1 == Eval(">>", P, t, u, t \div 2 ^ u)
    IN  {Out(cast(R, P, v), {e1}) : v \in ShiftRightValues(e1)}

right_shift_signed(R, T, U, t, u) ==
    LET P  == Promote(T)
        e1 == Eval(">>", P, t, u, t \div 2 ^ u)
    IN  IF t < 0
        THEN {Out(Err("implementation_defined_behavior"), {})}
        ELSE {Out(cast(R, P, v), {e1}) : v \in ShiftRightValues(e1)}

right_shift(R, T, U, t, u) ==
    IF u = 0 THEN {Out(Result(R, t), {})}
    ELSE IF u < 0 THEN {Out(Err("implementation_defined_behavior"), {})}
    ELSE IF u > digits(R)
    THEN {Out(Err("implementation_defined_behavior"), {})}
    ELSE IF t = 0 THEN {Out(cast(R, int, 0), {})}
    ELSE IF T.sgn THEN right_shift_signed(R, T, U, t, u)
    ELSE right_shift_unsigned(R, T, U, t, u)

---------------------------------------------------------------------------
(* bitwise_or, bitwise_xor, bitwise_and                                    *)

\* utility::bits_type<R>::value
bits_type(R) == R.bits

RECURSIVE BitOp(_, _, _)
\* the operator f applied bit by bit to the naturals a and b
BitOp(f, a, b) ==
    IF a = 0 /\ b = 0 THEN 0
    ELSE LET x == a % 2
             y == b % 2
             z == IF f = "|" THEN (IF x + y > 0 THEN 1 ELSE 0)
                  ELSE IF f = "^" THEN (x + y) % 2
                  ELSE x * y
         IN  z + 2 * BitOp(f, a \div 2, b \div 2)

\* t | u, t ^ u, t & u: both operands are converted to their common type
\* and the operator acts on their two's complement representation
NativeBitwise(f, T, U, t, u) ==
    LET C  == Common(T, U)
        UC == make_unsigned(C)
    IN  Eval(f, C, Wrap(C, t), Wrap(C, u),
             Wrap(C, BitOp(f, Wrap(UC, t), Wrap(UC, u))))

Maximum(a, b) == IF a >= b THEN a ELSE b

Minimum(a, b) == IF a <= b THEN a ELSE b

bitwise_or(R, T, U, t, u) ==
    LET result_size == Maximum(significant_bits(t), significant_bits(u))
        e1          == NativeBitwise("|", T, U, t, u)
    IN  IF result_size > bits_type(R)
        THEN Out(Err("positive_overflow_error"), {})
        ELSE Out(Result(R, e1.exact), {e1})

bitwise_xor(R, T, U, t, u) ==
    LET result_size == Maximum(significant_bits(t), significant_bits(u))
        e1          == NativeBitwise("^", T, U, t, u)
    IN  IF result_size > bits_type(R)
        THEN Out(Err("positive_overflow_error"), {})
        ELSE Out(Result(R, e1.exact), {e1})

\* variant: the result size of bitwise_or (std::max) is used
bitwise_and_max(R, T, U, t, u) ==
    LET result_size == Maximum(significant_bits(t), significant_bits(u))
        e1          == NativeBitwise("&", T, U, t, u)
    IN  IF result_size > bits_type(R)
        THEN Out(Err("positive_overflow_error"), {})
        ELSE Out(Result(R, e1.exact), {e1})

bitwise_and(R, T, U, t, u) ==
    LET result_size == Minimum(significant_bits(t), significant_bits(u))
        e1          == NativeBitwise("&", T, U, t, u)
    IN  IF result_size > bits_type(R)
        THEN Out(Err("positive_overflow_error"), {})
        ELSE Out(Result(R, e1.exact), {e1})

---------------------------------------------------------------------------
(* The calls                                                               *)

Boundaries ==
    {0, CharBits, IntBits, MaxBits}
        \cup {Min(X) : X \in Types} \cup {Max(X) : X \in Types}

\* the operands drawn for a type: its values near a boundary of some type
Values(T) ==
    {v \in Min(T)..Max(T) : \E b \in Boundaries : Abs(v - b) <= Near}

\* what a build can return: the computed result, or anything once a native
\* evaluation with undefined behaviour was made
Outcomes(R, o) ==
    IF \E e \in o.evals : Undefined(e)
    THEN {o} \cup {Out(Ok(v), o.evals) : v \in {Min(R), 0, Max(R)}}
    ELSE {o}

Init ==
    /\ op = "input"
    /\ rtype \in Types
    /\ ttype \in Types
    /\ utype \in Types
    /\ targ \in Values(ttype)
    /\ uarg \in Values(utype)
    /\ res = Ok(0)
    /\ evals = {}

Cast ==
    /\ op = "input"
    /\ op' = "cast"
    /\ \E o \in {Out(cast(rtype, ttype, targ), {})} :
          res' = o.res /\ evals' = o.evals
    /\ UNCHANGED inputs

Add ==
    /\ op = "input"
    /\ op' = "add"
    /\ \E o \in Outcomes(rtype, add(rtype, ttype, utype, targ, uarg)) :
          res' = o.res /\ evals' = o.evals
    /\ UNCHANGED inputs

Subtract ==
    /\ op = "input"
    /\ op' = "subtract"
    /\ \E o \in Outcomes(rtype, subtract(rtype, ttype, utype, targ, uarg)) :
          res' = o.res /\ evals' = o.evals
    /\ UNCHANGED inputs

Multiply ==
    /\ op = "input"
    /\ op' = "multiply"
    /\ \E o \in Outcomes(rtype, multiply(rtype, ttype, utype, targ, uarg)) :
          res' = o.res /\ evals' = o.evals
    /\ UNCHANGED inputs

Divide ==
    /\ op = "input"
    /\ op' = "divide"
    /\ \E o \in Outcomes(rtype, divide(rtype, ttype, utype, targ, uarg)) :
          res' = o.res /\ evals' = o.evals
    /\ UNCHANGED inputs

Modulus ==
    /\ op = "input"
    /\ op' = "modulus"
    /\ \E o \in Outcomes(rtype, modulus(rtype, ttype, utype, targ, uarg)) :
          res' = o.res /\ evals' = o.evals
    /\ UNCHANGED inputs

LessThan ==
    /\ op = "input"
    /\ op' = "less_than"
    /\ \E o \in {less_than(rtype, ttype, utype, targ, uarg)} :
          res' = o.res /\ evals' = o.evals
    /\ UNCHANGED inputs

GreaterThan ==
    /\ op = "input"
    /\ op' = "greater_than"
    /\ \E o \in {greater_than(rtype, ttype, utype, targ, uarg)} :
          res' = o.res /\ evals' = o.evals
    /\ UNCHANGED inputs

Equal ==
    /\ op = "input"
    /\ op' = "equal"
    /\ \E o \in {equal(rtype, ttype, utype, targ, uarg)} :
          res' = o.res /\ evals' = o.evals
    /\ UNCHANGED inputs

LeftShift ==
    /\ op = "input"
    /\ op' = "left_shift"
    /\ \E o \in left_shift(rtype, ttype, utype, targ, uarg) :
          res' = o.res /\ evals' = o.evals
    /\ UNCHANGED inputs

RightShift ==
    /\ op = "input"
    /\ op' = "right_shift"
    /\ \E o \in right_shift(rtype, ttype, utype, targ, uarg) :
          res' = o.res /\ evals' = o.evals
    /\ UNCHANGED inputs

BitwiseOr ==
    /\ op = "input"
    /\ op' = "bitwise_or"
    /\ \E o \in {bitwise_or(rtype, ttype, utype, targ, uarg)} :
          res' = o.res /\ evals' = o.evals
    /\ UNCHANGED inputs

BitwiseXor ==
    /\ op = "input"
    /\ op' = "bitwise_xor"
    /\ \E o \in {bitwise_xor(rtype, ttype, utype, targ, uarg)} :
          res' = o.res /\ evals' = o.evals
    /\ UNCHANGED inputs

BitwiseAnd ==
    /\ op = "input"
    /\ op' = "bitwise_and"
    /\ \E o \in {bitwise_and(rtype, ttype, utype, targ, uarg)} :
          res' = o.res /\ evals' = o.evals
    /\ UNCHANGED inputs

Next ==
    \/ Cast
    \/ Add
    \/ Subtract
    \/ Multiply
    \/ Divide
    \/ Modulus
    \/ LessThan
    \/ GreaterThan
    \/ Equal
    \/ LeftShift
    \/ RightShift
    \/ BitwiseOr
    \/ BitwiseXor
    \/ BitwiseAnd

Spec == Init /\ [][Next]_vars

---------------------------------------------------------------------------
(* Properties                                                              *)

Representable == InRange(rtype, targ) /\ InRange(rtype, uarg)

\* C1: cast<R>(t) returns Ok(t) exactly when R::min <= t <= R::max;
\* otherwise domain_error when R is unsigned and t < 0,
\* negative_overflow_error when R is signed and t < R::min, and
\* positive_overflow_error when t > R::max.
C1_CastContract ==
    op = "cast" =>
        /\ (res.e = "success") <=> InRange(rtype, targ)
        /\ res.e = "success" => res.r = targ
        /\ (~rtype.sgn /\ targ < 0) => res.e = "domain_error"
        /\ (rtype.sgn /\ targ < Min(rtype))
              => res.e = "negative_overflow_error"
        /\ targ > Max(rtype) => res.e = "positive_overflow_error"

\* a negative value of a signed type converted to an unsigned type
C1_Witness ==
    /\ op = "cast"
    /\ ~rtype.sgn /\ ttype.sgn /\ targ = -1
    /\ res.e = "domain_error"

\* C2: for t, u representable in R, add<R>(t, u) returns Ok(t + u) exactly
\* when R::min <= t + u <= R::max, positive_overflow_error when
\* t + u > R::max and negative_overflow_error when t + u < R::min.
C2_AddContract ==
    (op = "add" /\ Representable) =>
        /\ (res.e = "success") <=> InRange(rtype, targ + uarg)
        /\ res.e = "success" => res.r = targ + uarg
        /\ targ + uarg > Max(rtype) => res.e = "positive_overflow_error"
        /\ targ + uarg < Min(rtype) => res.e = "negative_overflow_error"

\* the sum of two positive operands lands exactly on R::max
C2_Witness ==
    /\ op = "add"
    /\ targ > 0 /\ uarg > 0 /\ targ + uarg = Max(rtype)
    /\ res = Ok(Max(rtype))

\* C3: for t, u representable in R, subtract<R>(t, u) returns Ok(t - u)
\* exactly when t - u is representable in R; for unsigned R range_error
\* exactly when t < u; for signed R positive_overflow_error when u > 0 and
\* t < R::min + u, negative_overflow_error when u < 0 and t > R::max + u.
C3_SubtractContract ==
    (op = "subtract" /\ Representable) =>
        /\ (res.e = "success") <=> InRange(rtype, targ - uarg)
        /\ res.e = "success" => res.r = targ - uarg
        /\ ~rtype.sgn => ((res.e = "range_error") <=> targ < uarg)
        /\ (rtype.sgn /\ uarg > 0 /\ targ < Min(rtype) + uarg)
              => res.e = "positive_overflow_error"
        /\ (rtype.sgn /\ uarg < 0 /\ targ > Max(rtype) + uarg)
              => res.e = "negative_overflow_error"

\* a signed subtraction of a positive u that leaves the range of R
C3_Witness ==
    /\ op = "subtract"
    /\ rtype.sgn /\ Representable
    /\ uarg > 0 /\ targ < Min(rtype) + uarg
    /\ res.e = "positive_overflow_error"

\* C4: for t, u representable in R, multiply<R>(t, u) returns Ok(t * u)
\* exactly when R::min <= t * u <= R::max, positive_overflow_error when
\* t * u > R::max and negative_overflow_error when t * u < R::min, on the
\* wide path and on the narrow path; R::min * -1 and -1 * R::min are
\* positive_overflow_error.
C4_MultiplyContract ==
    (op = "multiply" /\ Representable) =>
        /\ (res.e = "success") <=> InRange(rtype, targ * uarg)
        /\ res.e = "success" => res.r = targ * uarg
        /\ targ * uarg > Max(rtype) => res.e = "positive_overflow_error"
        /\ targ * uarg < Min(rtype) => res.e = "negative_overflow_error"

\* R::min * -1 on the narrow path
C4_Witness ==
    /\ op = "multiply"
    /\ rtype.sgn /\ sizeof(rtype) > sizeof(uintmax_t) \div 2
    /\ targ = Min(rtype) /\ uarg = -1
    /\ res.e = "positive_overflow_error"

\* C5: divide<R>(t, u) returns domain_error whenever u == 0; for u != 0
\* domain_error whenever t or u is not representable in R; for signed R
\* with u == -1 and t == R::min range_error; in every other case Ok(q) with
\* q the quotient t / u truncated toward zero.
C5_DivideContract ==
    op = "divide" =>
        IF uarg = 0 THEN res.e = "domain_error"
        ELSE IF ~Representable THEN res.e = "domain_error"
        ELSE IF rtype.sgn /\ uarg = -1 /\ targ = Min(rtype)
        THEN res.e = "range_error"
        ELSE /\ res.e = "success"
             /\ LET rem == targ - res.r * uarg
                IN  /\ Abs(rem) < Abs(uarg)
                    /\ rem = 0 \/ (rem < 0) = (targ < 0)

\* a cast that fails with negative_overflow_error is reported as domain_error
C5_Witness ==
    /\ op = "divide"
    /\ uarg # 0 /\ rtype.sgn /\ targ < Min(rtype)
    /\ res.e = "domain_error"

\* C6: modulus<R>(t, u) returns domain_error when u == 0, and for every
\* u != 0 returns Ok(v) where v = t - trunc(t / |u|) * |u|, so that v is zero
\* or has the sign of the dividend t, |v| < |u|, and v is representable in R.
C6_ModulusContract ==
    op = "modulus" =>
        IF uarg = 0 THEN res.e = "domain_error"
        ELSE /\ res.e = "success"
             /\ res.r = targ - TruncDiv(targ, Abs(uarg)) * Abs(uarg)
             /\ res.r = 0 \/ (res.r < 0) = (targ < 0)
             /\ Abs(res.r) < Abs(uarg)
             /\ InRange(rtype, res.r)

\* C7: first error wins: for add, subtract, multiply, less_than,
\* greater_than and equal, if t is not representable in R the operation
\* returns exactly the error of cast<R>(t), whatever u is; if t is
\* representable and u is not, exactly the error of cast<R>(u); the
\* per-operation check is reached only when both casts are Ok.
C7_FirstErrorWins ==
    op \in {"add", "subtract", "multiply",
            "less_than", "greater_than", "equal"} =>
        /\ ~InRange(rtype, targ) => res = cast(rtype, ttype, targ)
        /\ (InRange(rtype, targ) /\ ~InRange(rtype, uarg))
              => res = cast(rtype, utype, uarg)
        /\ ~Representable => (exception(res) /\ evals = {})

\* t fails with domain_error and u would fail with positive_overflow_error
C7_Witness ==
    /\ op \in {"add", "less_than"}
    /\ ~rtype.sgn /\ targ < 0 /\ uarg > Max(rtype)
    /\ res.e = "domain_error"

C9_LeftShiftContract ==
    (op = "left_shift" /\ targ # 0 /\ 0 < uarg /\ uarg <= rtype.bits) =>
        IF targ < 0 THEN res.e = "undefined_behavior"
        ELSE IF uarg > rtype.bits - significant_bits(targ)
        THEN res.e = "undefined_behavior"
        ELSE /\ res = Ok(targ * 2 ^ uarg)
             /\ InRange(rtype, targ * 2 ^ uarg)

\* C10: for nonzero t and 0 < u <= width(R), right_shift<R>(t, u) returns
\* implementation_defined_behavior when t < 0, and for t > 0 exactly
\* cast<R>(floor(t / 2^u)).
C10_RightShiftContract ==
    (op = "right_shift" /\ targ # 0 /\ 0 < uarg /\ uarg <= rtype.bits) =>
        IF targ < 0 THEN res.e = "implementation_defined_behavior"
        ELSE IF targ \div 2 ^ uarg <= Max(rtype)
        THEN res = Ok(targ \div 2 ^ uarg)
        ELSE res.e = "positive_overflow_error"

\* C11: shift identity: for every R, T and every value t of T,
\* left_shift<R>(t, 0) and right_shift<R>(t, 0) return Ok whose value equals
\* t; the tests on the count (u < 0, u > width(R), both
\* implementation_defined_behavior) are made before any test on t.
C11_ShiftIdentity ==
    op \in {"left_shift", "right_shift"} =>
        /\ uarg = 0 => res = Ok(targ)
        /\ (uarg < 0 \/ uarg > rtype.bits)
              => res.e = "implementation_defined_behavior"

\* C12: multiply identity: for all R, T, U and every value t of T,
\* multiply<R>(t, 0) = Ok(0) and multiply<R>(0, t) = Ok(0), and
\* multiply<R>(t, 1) returns exactly what cast<R>(t) returns.
C12_MultiplyIdentity ==
    op = "multiply" =>
        /\ uarg = 0 => res = Ok(0)
        /\ targ = 0 => res = Ok(0)
        /\ uarg = 1 => res = cast(rtype, ttype, targ)

\* C12 (amended): multiply<R>(t, 0) and multiply<R>(0, t) are Ok(0) for
\* every t representable in R and the error of cast<R>(t) otherwise;
\* multiply<R>(t, 1) returns exactly what cast<R>(t) returns.
C12_MultiplyIdentityRepresentable ==
    op = "multiply" =>
        /\ uarg = 0 =>
              res = IF InRange(rtype, targ) THEN Ok(0)
                    ELSE cast(rtype, ttype, targ)
        /\ targ = 0 =>
              res = IF InRange(rtype, uarg) THEN Ok(0)
                    ELSE cast(rtype, utype, uarg)
        /\ uarg = 1 => res = cast(rtype, ttype, targ)

\* 0 * R::min on the narrow path
C12_Witness ==
    /\ op = "multiply"
    /\ rtype.sgn /\ sizeof(rtype) > sizeof(uintmax_t) \div 2
    /\ targ = 0 /\ uarg = Min(rtype)
    /\ res = Ok(0)

\* C13: the overflow kinds name the direction of the overflow: whenever
\* add, subtract or multiply on operands representable in R returns
\* positive_overflow_error the exact result is greater than R::max, and
\* whenever it returns negative_overflow_error the exact result is less than
\* R::min.
C13_OverflowDirection ==
    (op \in {"add", "subtract", "multiply"} /\ Representable) =>
        LET exact == IF op = "add" THEN targ + uarg
                     ELSE IF op = "subtract" THEN targ - uarg
                     ELSE targ * uarg
        IN  /\ res.e = "positive_overflow_error" => exact > Max(rtype)
            /\ res.e = "negative_overflow_error" => exact < Min(rtype)

\* C14: bitwise_or<R> and bitwise_xor<R> return positive_overflow_error
\* exactly when max(significant_bits(t), significant_bits(u)) > width(R),
\* and bitwise_and<R> exactly when min(significant_bits(t),
\* significant_bits(u)) > width(R); otherwise each returns Ok(v) where v is
\* the bitwise or / xor / and of t and u and v is representable in R; no
\* other error kind is ever returned.
C14_BitwiseContract ==
    op \in {"bitwise_or", "bitwise_xor", "bitwise_and"} =>
        LET f     == IF op = "bitwise_or" THEN "|"
                     ELSE IF op = "bitwise_xor" THEN "^" ELSE "&"
            size  == IF op = "bitwise_and"
                     THEN Minimum(significant_bits(targ),
                                  significant_bits(uarg))
                     ELSE Maximum(significant_bits(targ),
                                  significant_bits(uarg))
            Wide  == IntType(TRUE, MaxBits + 1)
            exact == Wrap(Wide, BitOp(f, Wrap(make_unsigned(Wide), targ),
                                         Wrap(make_unsigned(Wide), uarg)))
        IN  IF size > rtype.bits
            THEN res.e = "positive_overflow_error"
            ELSE res = Ok(exact) /\ InRange(rtype, exact)

\* C14 (amended): the same error condition and no other error kind;
\* otherwise each returns Ok(v), and for non-negative t and u the value v is
\* the bitwise or / xor / and of t and u converted to R (reduced modulo
\* 2^width(R)), equal to it whenever it is at most R::max.
C14_BitwiseConverted ==
    op \in {"bitwise_or", "bitwise_xor", "bitwise_and"} =>
        LET f     == IF op = "bitwise_or" THEN "|"
                     ELSE IF op = "bitwise_xor" THEN "^" ELSE "&"
            size  == IF op = "bitwise_and"
                     THEN Minimum(significant_bits(targ),
                                  significant_bits(uarg))
                     ELSE Maximum(significant_bits(targ),
                                  significant_bits(uarg))
        IN  IF size > rtype.bits
            THEN res.e = "positive_overflow_error"
            ELSE /\ res.e = "success"
                 /\ InRange(rtype, res.r)
                 /\ (targ >= 0 /\ uarg >= 0) =>
                       LET exact == BitOp(f, targ, uarg)
                       IN  /\ (res.r - exact) % (2 ^ rtype.bits) = 0
                           /\ exact <= Max(rtype) => res.r = exact

\* a result that needs all width(R) bits of a signed R comes back negative
C14_Witness ==
    /\ op = "bitwise_or"
    /\ rtype.sgn /\ targ > 0 /\ uarg > 0
    /\ res.e = "success" /\ res.r < 0

\* C15: the pre-checks never overflow themselves: for operands
\* representable in R, every intermediate value formed while add, subtract,
\* narrow-path multiply and divide decide their result lies in
\* [R::min, R::max], no division by zero and no R::min / -1 is evaluated,
\* and the native t + u, t - u, t * u or t / u is evaluated only where its
\* exact result lies in [R::min, R::max].
C15_PreChecksInRange ==
    (op \in {"add", "subtract", "multiply", "divide"} /\ Representable) =>
        \A e \in evals :
            /\ ~Undefined(e)
            /\ (op = "multiply" /\ sizeof(rtype) <= sizeof(uintmax_t) \div 2
                    /\ e.ty.bits = MaxBits)
                 \/ InRange(rtype, e.exact)
            /\ e.o = "/" =>
                  /\ e.b # 0
                  /\ ~(rtype.sgn /\ e.a = Min(rtype) /\ e.b = -1)

\* -1 * R::min on the narrow path: R::max / t is formed with t = -1
C15_Witness ==
    /\ op = "multiply"
    /\ rtype.sgn /\ sizeof(rtype) > sizeof(uintmax_t) \div 2
    /\ targ = -1 /\ uarg = Min(rtype)
    /\ \E e \in evals : e.o = "/" /\ e.b = -1 /\ e.exact = -Max(rtype)
    /\ res.e = "positive_overflow_error"

=============================================================================
